---- MODULE Spec2Model ----
(***************************************************************************)
(* sonicrabMQ: the per-broker segment store (src/src/storage.rs), the      *)
(* connection handler with its broker registry (src/src/main.rs) and the   *)
(* retention sweeper (src/src/fileclear.rs).                               *)
(*                                                                         *)
(* Spec      : one store; append_data, sendfile, restart.                  *)
(* SpecSweep : one store; append_data, the sweeper, stop and restart.      *)
(* SpecConn  : connections and the registry, one step per request.         *)
(* SpecRace  : the same with get_broker split at its await and the lock    *)
(*             of the broker handle taken in a step of its own.            *)
(* SpecSteps : one store; append_data statement by statement, restart.     *)
(* SpecSend  : one store; call_sendfile iteration by iteration             *)
(*             (SpecSendFair: the same with the fairness of the loop).     *)
(* SpecSized : the sizes of config.toml through parse_size.                *)
(* SpecTwo   : SpecConn with room for two brokers in the registry.       *)
(*                                                                         *)
(* A data file is modelled byte by byte (a sequence of 0..255); an index   *)
(* file is a sequence of 12-byte slots, each kept decoded as               *)
(* <<start, size>>; file and mapping lengths are kept in bytes.            *)
(* Sizes are scaled: the index is preallocated with INITIAL_INDEX_SLOTS    *)
(* slots and grows by INDEX_EXPANSION_SLOTS (1024 and 512 in the source),  *)
(* and max_file_size / pull_max_limit hold a few records.                  *)
(***************************************************************************)
EXTENDS Integers, Sequences, FiniteSets, TLC

VARIABLES
    cfg,        \* Config: storage.max_file_size, pull_max_limit, cache_limit, ...
    disk,       \* broker name -> directory: [data: base -> bytes, index: base -> slots]
    brokers,    \* registry: broker name -> DataStorage fields (DashMap in main.rs)
    hist,       \* broker name -> records appended so far, in order (history)
    last,       \* what the last storage operation did (observation of the call)
    conns,      \* connection -> state of its handle_client task
    up,         \* the server process is running
    nrestart    \* process restarts so far

vars == <<cfg, disk, brokers, hist, last, conns, up, nrestart>>

----------------------------------------------------------------------------
(* Bounds of the model *)

MaxAppends == 5         \* appends per broker directory
MaxRestarts == 1        \* process restarts
MaxRequests == 2        \* requests handled per connection

(* Program constants (storage.rs:17-19), index sizes scaled to slots *)
INDEX_ENTRY_SIZE == 12
INITIAL_INDEX_SLOTS == 2
INDEX_EXPANSION_SLOTS == 1
HEADER_LEN == 12

INITIAL_INDEX_SIZE == INITIAL_INDEX_SLOTS * INDEX_ENTRY_SIZE
INDEX_EXPANSION_SIZE == INDEX_EXPANSION_SLOTS * INDEX_ENTRY_SIZE

----------------------------------------------------------------------------
(* Helpers *)

Min(a, b) == IF a < b THEN a ELSE b
Max(a, b) == IF a > b THEN a ELSE b

SetMax(S) == CHOOSE x \in S : \A y \in S : y <= x

\* offsets.sort() : the ascending sequence of a set of numbers
RECURSIVE SortAsc(_)
SortAsc(S) ==
    IF S = {} THEN <<>>
    ELSE LET m == CHOOSE x \in S : \A y \in S : x <= y
         IN  <<m>> \o SortAsc(S \ {m})

\* iter().rev()
RECURSIVE Reverse(_)
Reverse(s) == IF s = <<>> THEN <<>> ELSE Reverse(Tail(s)) \o <<Head(s)>>

\* u32::to_be_bytes / u64::to_be_bytes (every number of the model is below 2^31,
\* so the four high bytes of a u64 are 0)
be32(n) == << (n \div 16777216) % 256, (n \div 65536) % 256, (n \div 256) % 256, n % 256 >>
be64(n) == <<0, 0, 0, 0>> \o be32(n)

\* u32::from_be_bytes / u64::from_be_bytes on a slice of the right length
from_be32(b) == ((b[1] * 256 + b[2]) * 256 + b[3]) * 256 + b[4]
from_be64(b) == from_be32(SubSeq(b, 5, 8))

\* the 12-byte record header: be32 payload length, be64 logical offset
RecordHeader(data, position) == be32(Len(data)) \o be64(position)
RecordBytes(data, position) == RecordHeader(data, position) \o data

\* write(2) at the descriptor's file position: overwrites, and extends at the end
WriteAt(content, cursor, bytes) ==
    [i \in 1..Max(Len(content), cursor + Len(bytes)) |->
        IF i > cursor /\ i <= cursor + Len(bytes) THEN bytes[i - cursor]
        ELSE IF i <= Len(content) THEN content[i] ELSE 0]

\* File::set_len on an index file: truncate, or extend with zero slots
SetLenSlots(slots, n) ==
    [i \in 1..n |-> IF i <= Len(slots) THEN slots[i] ELSE <<0, 0>>]

\* what a client decodes from a byte stream by the record headers
RECURSIVE DecodeRecords(_)
DecodeRecords(bytes) ==
    IF Len(bytes) < HEADER_LEN THEN <<>>
    ELSE LET len == from_be32(SubSeq(bytes, 1, 4))
             off == from_be64(SubSeq(bytes, 5, 12))
         IN  IF Len(bytes) < HEADER_LEN + len THEN <<>>
             ELSE <<[offset |-> off, payload |-> SubSeq(bytes, 13, 12 + len)]>>
                  \o DecodeRecords(SubSeq(bytes, 13 + len, Len(bytes)))

----------------------------------------------------------------------------
(* DataStorage (storage.rs).  s is the struct, d the broker directory, c the  *)
(* configuration.  A File is [base, cursor]; a mapping is [base, len]: the    *)
(* index file it maps and the byte length it had when it was mapped.          *)
(* A file name is <<base, extension>>.  d.gone holds the names removed from   *)
(* the directory (fs::remove_file): the content stays in d.data / d.index for *)
(* the descriptors and mappings opened before, and an open by name does not   *)
(* find the file.                                                             *)

EmptyDir == [data |-> << >>, index |-> << >>, gone |-> {}]

\* the directory has an entry of that name
DataExists(d, base) == base \in DOMAIN d.data /\ <<base, "data">> \notin d.gone
IndexExists(d, base) == base \in DOMAIN d.index /\ <<base, "index">> \notin d.gone

\* metadata()?.len() of a data file / an index file
DataFileLen(d, base) == Len(d.data[base])
IndexFileLen(d, base) == Len(d.index[base]) * INDEX_ENTRY_SIZE

\* open_data_file(offset, false): read+write+create, no append, no truncate, no
\* seek: the file position of the new descriptor is 0
open_data_file(d, offset) ==
    [dir  |-> IF DataExists(d, offset) THEN d
              ELSE [d EXCEPT !.data =
                      [b \in (DOMAIN d.data) \cup {offset} |->
                          IF b = offset THEN << >> ELSE d.data[b]],
                             !.gone = @ \ {<<offset, "data">>}],
     file |-> [base |-> offset, cursor |-> 0]]

\* create_index_file(offset): open or create, set_len(INITIAL_INDEX_SIZE), map
create_index_file(d, offset) ==
    LET old == IF IndexExists(d, offset) THEN d.index[offset] ELSE << >>
        new == SetLenSlots(old, INITIAL_INDEX_SLOTS)
    IN  [dir |-> [d EXCEPT !.index =
                     [b \in (DOMAIN d.index) \cup {offset} |->
                         IF b = offset THEN new ELSE d.index[b]],
                           !.gone = @ \ {<<offset, "index">>}],
         map |-> [base |-> offset, len |-> INITIAL_INDEX_SIZE]]

\* open_index_file(offset) of a sealed segment: map the file at its current length
open_index_file(d, offset) == [base |-> offset, len |-> IndexFileLen(d, offset)]

\* one FileEntry of self.files
FileEntry(d, base) == [base_offset |-> base, map |-> open_index_file(d, base)]

create_new_files(s, d, offset) ==
    LET df == open_data_file(d, offset)
        ix == create_index_file(df.dir, offset)
    IN  [st  |-> [s EXCEPT !.data_len = DataFileLen(ix.dir, offset),
                           !.index_len = IndexFileLen(ix.dir, offset),
                           !.data_file = df.file,
                           !.index_map = ix.map],
         dir |-> ix.dir]

\* a read of slot k through a mapping: "panic" when the slice is outside the
\* mapping, "sigbus" when the mapping reaches past the end of the file
read_slot(d, map, k) ==
    IF (k + 1) * INDEX_ENTRY_SIZE > map.len THEN [res |-> "panic", slot |-> <<0, 0>>]
    ELSE IF k + 1 > Len(d.index[map.base]) THEN [res |-> "sigbus", slot |-> <<0, 0>>]
    ELSE [res |-> "ok", slot |-> d.index[map.base][k + 1]]

IsZeroSlot(e) == e[1] = 0 /\ e[2] = 0

\* the scan of initialize_files for the first all-zero slot; position_offset is
\* left as it was (0) when no slot of the file is all zero
RECURSIVE ScanPosition(_, _, _, _)
ScanPosition(slots, k, last_offset, dflt) ==
    IF k >= Len(slots) THEN dflt
    ELSE IF IsZeroSlot(slots[k + 1])
         THEN (IF k > 0 THEN k + last_offset ELSE last_offset)
         ELSE ScanPosition(slots, k + 1, last_offset, dflt)

\* the struct as DataStorage::new builds it, before initialize_files
NewStruct ==
    [base_offset |-> 0, position_offset |-> 0, index_len |-> 0, data_len |-> 0,
     data_file |-> [base |-> 0, cursor |-> 0],
     index_map |-> [base |-> 0, len |-> 0],
     files |-> << >>]

\* the sealed entries initialize_files opens: descending from the largest base
\* below the active one, while files.len() + 1 <= cache_limit
SealedAtInit(d, offsets, last_offset, c) ==
    LET desc == Reverse(SortAsc(offsets \ {last_offset}))
        n    == Min(Len(desc), c.cache_limit)
    IN  [i \in 1..n |-> FileEntry(d, desc[i])]

initialize_files(d, c) ==
    LET offsets == {b \in DOMAIN d.data : DataExists(d, b)}
    IN  IF offsets = {} THEN create_new_files(NewStruct, d, 0)
        ELSE LET last_offset == SetMax(offsets)
                 s1 == [NewStruct EXCEPT !.base_offset = last_offset,
                                         !.files = SealedAtInit(d, offsets, last_offset, c)]
                 r  == create_new_files(s1, d, last_offset)
                 pos == ScanPosition(r.dir.index[last_offset], 0, last_offset, 0)
             IN  [st  |-> [r.st EXCEPT !.position_offset = pos,
                                       !.data_len = DataFileLen(r.dir, last_offset)],
                  dir |-> r.dir]

----------------------------------------------------------------------------
(* append_data *)

\* the rotation test of append_data (storage.rs:277)
NeedsRotation(s, data, c) == s.data_len + Len(data) > c.max_file_size

\* files.remove(0) when the cache is full, then files.push(entry)
EvictAndPush(files, entry, c) ==
    (IF Len(files) + 1 > c.cache_limit THEN Tail(files) ELSE files) \o <<entry>>

\* the rotation block of append_data (storage.rs:278-293).  files.remove(0)
\* panics on an empty vector, after create_new_files has replaced the active
\* files; the read-only open of the old data file returns Err when its name is
\* no longer in the directory, after the eviction and the swap of base_offset
Rotate(s, d, c) ==
    LET position == s.position_offset
        r  == create_new_files(s, d, position)
    IN  IF Len(s.files) + 1 > c.cache_limit /\ Len(s.files) = 0
        THEN [st |-> r.st, dir |-> r.dir, res |-> "panic"]
        ELSE IF ~DataExists(r.dir, s.base_offset)
        THEN [st  |-> [r.st EXCEPT !.base_offset = position,
                                   !.files = IF Len(s.files) + 1 > c.cache_limit
                                             THEN Tail(s.files) ELSE s.files],
              dir |-> r.dir, res |-> "err"]
        ELSE [st  |-> [r.st EXCEPT !.base_offset = position,
                                   !.files = EvictAndPush(s.files,
                                                 FileEntry(r.dir, s.base_offset), c)],
              dir |-> r.dir, res |-> "ok"]

\* expand_index_file when the slot after the new one does not fit the index file
\* (storage.rs:296-306); k2 is position + 2 - base_offset, negative when the u64
\* subtraction wrapped: new_size is then 2^64 + k2 * 12, above every file length
ExpandIfNeeded(s, d, k2) ==
    LET b        == s.index_map.base
        new_size == k2 * INDEX_ENTRY_SIZE
        old_size == IndexFileLen(d, b)
    IN  IF k2 < 0 \/ new_size > old_size
        THEN [st  |-> [s EXCEPT !.index_map = [base |-> b,
                                               len |-> old_size + INDEX_EXPANSION_SIZE],
                                !.index_len = INDEX_EXPANSION_SIZE],
              dir |-> [d EXCEPT !.index[b] =
                         SetLenSlots(d.index[b], Len(d.index[b]) + INDEX_EXPANSION_SLOTS)]]
        ELSE [st |-> s, dir |-> d]

\* the header and the payload written at the file position of the active data
\* file; data_len grows by the bytes written (storage.rs:308-320)
WriteRecord(s, d, data, position) ==
    LET f     == s.data_file
        bytes == RecordBytes(data, position)
    IN  [st  |-> [s EXCEPT !.data_file.cursor = f.cursor + Len(bytes),
                           !.data_len = s.data_len + HEADER_LEN + Len(data)],
         dir |-> [d EXCEPT !.data[f.base] = WriteAt(d.data[f.base], f.cursor, bytes)]]

\* (mutant) the slots are written and position_offset is not advanced
WriteIndex_NoAdvance(s, d, k, start, end) ==
    LET m == s.index_map
    IN  IF (k + 2) * INDEX_ENTRY_SIZE > m.len
        THEN [st |-> s, dir |-> d, res |-> "panic"]
        ELSE [st  |-> s,
              dir |-> [d EXCEPT !.index[m.base][k + 1] = <<start, end>>,
                                !.index[m.base][k + 2] = <<0, 0>>],
              res |-> "ok"]

\* slot k := (start, end), slot k + 1 := zero, position += 1 (storage.rs:321-335);
\* a slice outside the mapping panics at that statement
WriteIndex(s, d, k, start, end) ==
    LET m == s.index_map
    IN  IF (k + 1) * INDEX_ENTRY_SIZE > m.len
        THEN [st |-> s, dir |-> d, res |-> "panic"]
        ELSE LET d1 == [d EXCEPT !.index[m.base][k + 1] = <<start, end>>]
             IN  IF (k + 2) * INDEX_ENTRY_SIZE > m.len
                 THEN [st |-> s, dir |-> d1, res |-> "panic"]
                 ELSE [st  |-> [s EXCEPT !.position_offset = s.position_offset + 1],
                       dir |-> [d1 EXCEPT !.index[m.base][k + 2] = <<0, 0>>],
                       res |-> "ok"]

\* append_data after the rotation block (storage.rs:296-347)
AppendTail(s, d, data, c) ==
    LET base_offset == s.base_offset
        position    == s.position_offset
    IN  IF position + 2 < base_offset /\ c.overflow_checks
        THEN \* position + 2 - base_offset overflows: the checked build panics here
             [st |-> s, dir |-> d, res |-> "panic"]
        ELSE LET e  == ExpandIfNeeded(s, d, position + 2 - base_offset)
                 start == DataFileLen(e.dir, e.st.data_file.base)
                 end   == HEADER_LEN + Len(data)
                 w  == WriteRecord(e.st, e.dir, data, position)
             IN  IF position < base_offset
                 THEN \* position - base_offset overflows, or indexes past the mapping
                      [st |-> w.st, dir |-> w.dir, res |-> "panic"]
                 ELSE WriteIndex(w.st, w.dir, position - base_offset, start, end)

append_data(s, d, data, c) ==
    IF NeedsRotation(s, data, c)
    THEN LET r == Rotate(s, d, c)
         IN  IF r.res # "ok" THEN r @@ [rotated |-> TRUE]
             ELSE AppendTail(r.st, r.dir, data, c) @@ [rotated |-> TRUE]
    ELSE AppendTail(s, d, data, c) @@ [rotated |-> FALSE]

----------------------------------------------------------------------------
(* sendfile *)

\* (mutant) offset 0 read as the first record instead of the newest
ResolveOffset_Literal(s, since_offset) == since_offset

\* the offset a read is resolved to (storage.rs:358-362)
ResolveOffset(s, since_offset) ==
    IF since_offset = 0 /\ s.position_offset > 0
    THEN s.position_offset - 1 ELSE since_offset

\* the active segment serves the offset (storage.rs:364)
InActive(s, offset) == offset >= s.base_offset /\ s.position_offset > offset

\* the bytes to request (storage.rs:370-374, 417-421); len - start is a u64
\* subtraction: -1 (a panic) when it overflows in a checked build, wrapped otherwise
SendSize(len, start, size, c) ==
    IF len < start
    THEN (IF c.overflow_checks THEN -1 ELSE size)
    ELSE IF len - start > c.pull_max_limit THEN size ELSE len - start

\* call_sendfile on a healthy socket: the kernel copies from the file at start
\* until size bytes are sent or the end of the file returns 0
call_sendfile(content, start, size) ==
    SubSeq(content, start + 1, Min(start + size, Len(content)))

NoRead == [res |-> "notfound", src |-> -1, start |-> 0, size |-> 0, sent |-> << >>]

\* read the slot, pick the size, transfer from one data file
SendFrom(d, map, data_base, k, len, c) ==
    LET r == read_slot(d, map, k)
        e == r.slot
    IN  IF r.res # "ok" THEN [NoRead EXCEPT !.res = r.res]
        ELSE LET size == SendSize(len, e[1], e[2], c)
             IN  IF size < 0 THEN [NoRead EXCEPT !.res = "panic"]
                 ELSE [res |-> "ok", src |-> data_base, start |-> e[1], size |-> size,
                       sent |-> call_sendfile(d.data[data_base], e[1], size)]

\* the loop over the cached sealed entries (storage.rs:394-402): the index of
\* the entry selected at the first i that matches, 0 when none does
RECURSIVE SelectLoop(_, _, _, _)
SelectLoop(files, offset, i, pre) ==
    IF i > Len(files) THEN 0
    ELSE IF offset < files[i].base_offset /\ offset > files[pre].base_offset
         THEN pre
         ELSE SelectLoop(files, offset, i + 1, i)

\* the sealed entry selected for an offset (storage.rs:389-408), 0 when none
SelectSealed(s, offset) ==
    LET len == Len(s.files)
    IN  IF len = 0 THEN 0
        ELSE LET j == SelectLoop(s.files, offset, 1, 1)
             IN  IF j # 0 THEN j
                 ELSE IF offset < s.base_offset /\ offset >= s.files[len].base_offset
                      THEN len ELSE 0

sendfile(s, d, since_offset, c) ==
    LET offset == ResolveOffset(s, since_offset)
        r == IF InActive(s, offset)
             THEN SendFrom(d, s.index_map, s.data_file.base,
                           offset - s.base_offset, s.data_len, c)
             ELSE LET j == SelectSealed(s, offset)
                  IN  IF j = 0 THEN NoRead
                      ELSE LET entry == s.files[j]
                           IN  SendFrom(d, entry.map, entry.base_offset,
                                        offset - entry.base_offset,
                                        DataFileLen(d, entry.base_offset), c)
    IN  r @@ [offset |-> offset, active |-> InActive(s, offset)]

----------------------------------------------------------------------------
(* The segment store of one broker as a state machine: construction on the    *)
(* broker directory, append_data, sendfile, and a restart of the process      *)
(* (the struct is dropped and DataStorage::new runs on the files left).       *)

T1 == "t1"

\* payloads pushed (opaque bytes)
Payloads == { <<7>>, <<8, 9>> }

\* config.toml: max_file_size and pull_max_limit after parse_size ("0k" is 0),
\* cache_limit, and whether the build checks integer overflow
Configs ==
    [max_file_size : {0, 20, 30}, pull_max_limit : {27}, cache_limit : {1, 2},
     overflow_checks : BOOLEAN, authorization : {"s3cr3t"}, broker_limit : {1}]

NoOp == [op |-> "none"]

NoConns == << >>

\* the registry of a process that is not running
NoBrokers == << >>

InitStore(c) == initialize_files(EmptyDir, c)

Init ==
    /\ cfg \in Configs
    /\ disk = [b \in {T1} |-> InitStore(cfg).dir]
    /\ brokers = [b \in {T1} |-> InitStore(cfg).st]
    /\ hist = [b \in {T1} |-> << >>]
    /\ last = NoOp
    /\ conns = NoConns
    /\ up = TRUE
    /\ nrestart = 0

\* Broker::receive_message -> DataStorage::append_data
AppendData(b, data) ==
    /\ up /\ b \in DOMAIN brokers
    /\ Len(hist[b]) < MaxAppends
    /\ LET s == brokers[b]
           r == append_data(s, disk[b], data, cfg)
       IN  /\ brokers' = [brokers EXCEPT ![b] = r.st]
           /\ disk' = [disk EXCEPT ![b] = r.dir]
           /\ hist' = [hist EXCEPT ![b] = Append(@,
                          [payload |-> data, offset |-> s.position_offset,
                           res |-> r.res, epoch |-> nrestart])]
           /\ last' = [op |-> "append", broker |-> b, res |-> r.res,
                       rotated |-> r.rotated, data |-> data,
                       position |-> s.position_offset, base |-> s.base_offset,
                       data_len |-> s.data_len]
    /\ UNCHANGED <<cfg, conns, up, nrestart>>

\* what send_messages_since puts on the socket: the bytes sendfile transferred,
\* then the four zero bytes, written also when sendfile returned Err; a panic
\* ends the task before the sentinel
PullStream(r) ==
    IF r.res \in {"ok", "notfound"} THEN r.sent \o be32(0) ELSE r.sent

\* Broker::send_messages_since -> DataStorage::sendfile.  A SIGBUS on a mapping
\* that reaches past its truncated file kills the process
Sendfile(b, since_offset) ==
    /\ up /\ b \in DOMAIN brokers
    /\ LET r == sendfile(brokers[b], disk[b], since_offset, cfg)
       IN  /\ last' = [op |-> "sendfile", broker |-> b, since |-> since_offset,
                       stream |-> PullStream(r)] @@ r
           /\ up' = (r.res # "sigbus")
           /\ brokers' = IF r.res = "sigbus" THEN NoBrokers ELSE brokers
    /\ UNCHANGED <<cfg, disk, hist, conns, nrestart>>

\* the rehydration loop of main (main.rs:182-190): one Broker::new, hence one
\* DataStorage::new, per directory under server.path
Rehydrate(dk, c) == [b \in DOMAIN dk |-> initialize_files(dk[b], c)]

\* every connection of a process that ends is closed
CloseAll(cs) ==
    [c \in DOMAIN cs |-> IF cs[c].state \in {"open", "creating", "holding", "locked"}
                         THEN [state |-> "closed", nreq |-> cs[c].nreq, out |-> << >>]
                         ELSE cs[c]]

\* the process stops (if it runs) and starts again
Restart ==
    /\ nrestart < MaxRestarts
    /\ LET r == Rehydrate(disk, cfg)
       IN  /\ brokers' = [b \in DOMAIN disk |-> r[b].st]
           /\ disk' = [b \in DOMAIN disk |-> r[b].dir]
    /\ nrestart' = nrestart + 1
    /\ up' = TRUE
    /\ conns' = CloseAll(conns)
    /\ last' = [op |-> "new"]
    /\ UNCHANGED <<cfg, hist>>

Next ==
    \/ \E data \in Payloads : AppendData(T1, data)
    \/ \E since \in 0..MaxAppends : Sendfile(T1, since)
    \/ Restart

Spec == Init /\ [][Next]_vars

----------------------------------------------------------------------------
(* The retention sweeper (fileclear.rs) run on the tree of broker directories *)
(* while the stores are in use.                                               *)

\* the entries of a broker directory with extension index or data
FileNames(d) ==
    {<<b, "data">> : b \in {x \in DOMAIN d.data : DataExists(d, x)}}
    \cup {<<b, "index">> : b \in {x \in DOMAIN d.index : IndexExists(d, x)}}

\* the order of the file names "{:012}.data" / "{:012}.index" as strings: the
\* zero-padded base first, then "data" before "index"
FileNameLess(a, b) ==
    a[1] < b[1] \/ (a[1] = b[1] /\ a[2] = "data" /\ b[2] = "index")

\* files.sort_by_key(file_name)
RECURSIVE SortNames(_)
SortNames(S) ==
    IF S = {} THEN << >>
    ELSE LET m == CHOOSE x \in S : \A y \in S : y = x \/ FileNameLess(x, y)
         IN  <<m>> \o SortNames(S \ {m})

\* (mutant) one file, the oldest, is removed when there are more than max_files
ToDelete_Oldest(d, max_files) ==
    LET files == SortNames(FileNames(d))
    IN  IF Len(files) > max_files THEN {files[1]} ELSE {}

\* files[..files.len() - max_files] when files.len() > max_files
ToDelete(d, max_files) ==
    LET files == SortNames(FileNames(d))
    IN  IF Len(files) > max_files
        THEN {files[i] : i \in 1..(Len(files) - max_files)}
        ELSE {}

\* clean_directory: the files to delete are removed from the directory
clean_directory(d, max_files) == [d EXCEPT !.gone = @ \cup ToDelete(d, max_files)]

\* delete_old_files: clean_directory on every subdirectory
delete_old_files(dk, max_files) == [b \in DOMAIN dk |-> clean_directory(dk[b], max_files)]

\* the values of max_files the sweeper is run with
SweepLimits == {0, 1, 2, 3, 4}

\* the payload pushed in the runs with the sweeper
SweepPayloads == { <<7>> }

\* config.toml of the runs with the sweeper
SweepConfigs == {c \in Configs : c.max_file_size # 30 /\ ~c.overflow_checks}

InitSweep ==
    /\ cfg \in SweepConfigs
    /\ disk = [b \in {T1} |-> InitStore(cfg).dir]
    /\ brokers = [b \in {T1} |-> InitStore(cfg).st]
    /\ hist = [b \in {T1} |-> << >>]
    /\ last = NoOp
    /\ conns = NoConns
    /\ up = TRUE
    /\ nrestart = 0

\* the server process ends; the files stay as they are
Stop ==
    /\ up
    /\ up' = FALSE
    /\ brokers' = NoBrokers
    /\ conns' = CloseAll(conns)
    /\ last' = [op |-> "stop"]
    /\ UNCHANGED <<cfg, disk, hist, nrestart>>

\* one run of delete_old_files; run counts the consecutive runs with the same
\* max_files (1, or 2 for a repeated run) and first is what the first of them
\* deleted.  The sweeper is run with max_files < 2 only while no server writes
\* to the tree
Sweep(max_files) ==
    /\ max_files >= 2 \/ ~up
    /\ disk' = delete_old_files(disk, max_files)
    /\ last' = [op |-> "sweep", max_files |-> max_files,
                deleted |-> [b \in DOMAIN disk |-> ToDelete(disk[b], max_files)],
                run |-> IF last.op = "sweep" /\ last.max_files = max_files
                        THEN 2 ELSE 1,
                first |-> IF last.op = "sweep" /\ last.max_files = max_files
                          THEN last.first
                          ELSE [b \in DOMAIN disk |-> ToDelete(disk[b], max_files)]]
    /\ UNCHANGED <<cfg, brokers, hist, conns, up, nrestart>>

NextSweep ==
    \/ \E data \in SweepPayloads : AppendData(T1, data)
    \/ \E max_files \in SweepLimits : Sweep(max_files)
    \/ Stop
    \/ Restart

SpecSweep == InitSweep /\ [][NextSweep]_vars

----------------------------------------------------------------------------
(* The connection handler and the broker registry (main.rs).  One step of     *)
(* HandleClient is one iteration of the loop of handle_client: a well-framed  *)
(* request is read, authenticated, dispatched and answered.                   *)

BrokerNames == {"t1", "t2"}
Connections == {1, 2}
Keys == {"s3cr3t", "wrong"}
PullOffsets == {0, 1}

\* the body of a request frame as handle_client parses it
Requests ==
    [key : Keys, command : {"PUSH"}, broker : BrokerNames, payload : Payloads]
    \cup [key : Keys, command : {"PULL"}, broker : BrokerNames, offset : PullOffsets]
    \cup [key : Keys, command : {"PING"}]

\* config.toml of the runs through the connection handler
ConnConfigs ==
    {c \in Configs : c.max_file_size = 30 /\ c.cache_limit = 1 /\ ~c.overflow_checks}

\* a reply frame: 4-byte big-endian length, then the body
Frame(content) == be32(Len(content)) \o content

\* b"Server authentication failed.", b"OK", b"NO_BROKER"
AUTH_FAILED == <<83, 101, 114, 118, 101, 114, 32, 97, 117, 116, 104, 101, 110, 116,
                 105, 99, 97, 116, 105, 111, 110, 32, 102, 97, 105, 108, 101, 100, 46>>
OK == <<79, 75>>
NO_BROKER == <<78, 79, 95, 66, 82, 79, 75, 69, 82>>

\* a connection: accepted or not, requests read so far, bytes written for the
\* last request
IdleConn == [state |-> "idle", nreq |-> 0, out |-> << >>]

InitConn ==
    /\ cfg \in ConnConfigs
    /\ disk = << >>
    /\ brokers = NoBrokers
    /\ hist = [b \in BrokerNames |-> << >>]
    /\ last = NoOp
    /\ conns = [c \in Connections |-> IdleConn]
    /\ up = TRUE
    /\ nrestart = 0

\* the accept loop of main spawns handle_client for a new connection
Accept(c) ==
    /\ up /\ conns[c].state = "idle"
    /\ conns' = [conns EXCEPT ![c].state = "open"]
    /\ last' = [op |-> "accept", conn |-> c]
    /\ UNCHANGED <<cfg, disk, brokers, hist, up, nrestart>>

\* (mutant) the key is compared on the first request of a connection only
KeyAccepted_FirstOnly(c, req) == conns[c].nreq > 0 \/ req.key = cfg.authorization

\* the key of the request is the configured authorization (main.rs:86)
KeyAccepted(c, req) == req.key = cfg.authorization

\* (mutant) get_broker without the test of broker_limit
get_broker_Unbounded(reg, dk, name, c) ==
    IF name \in DOMAIN reg THEN [reg |-> reg, dir |-> dk, found |-> TRUE]
    ELSE LET r == initialize_files(IF name \in DOMAIN dk THEN dk[name] ELSE EmptyDir, c)
         IN  [reg |-> [b \in (DOMAIN reg) \cup {name} |->
                          IF b = name THEN r.st ELSE reg[b]],
              dir |-> [b \in (DOMAIN dk) \cup {name} |->
                          IF b = name THEN r.dir ELSE dk[b]],
              found |-> TRUE]

\* get_broker (main.rs:147-161): the registry and the directories after the
\* call, and whether a broker was returned
get_broker(reg, dk, name, c) ==
    IF name \in DOMAIN reg THEN [reg |-> reg, dir |-> dk, found |-> TRUE]
    ELSE IF Cardinality(DOMAIN reg) + 1 <= c.broker_limit
    THEN LET r == initialize_files(IF name \in DOMAIN dk THEN dk[name] ELSE EmptyDir, c)
         IN  [reg |-> [b \in (DOMAIN reg) \cup {name} |->
                          IF b = name THEN r.st ELSE reg[b]],
              dir |-> [b \in (DOMAIN dk) \cup {name} |->
                          IF b = name THEN r.dir ELSE dk[b]],
              found |-> TRUE]
    ELSE [reg |-> reg, dir |-> dk, found |-> FALSE]

\* the connection after one request: what was written, and whether the task
\* goes on reading
Answered(cn, bytes, open) ==
    [state |-> IF open THEN "open" ELSE "closed", nreq |-> cn.nreq + 1, out |-> bytes]

\* credential mismatch (main.rs:86-93): one framed error, then return
Reject(c, req) ==
    /\ conns' = [conns EXCEPT ![c] = Answered(@, Frame(AUTH_FAILED), FALSE)]
    /\ last' = [op |-> "request", conn |-> c, key |-> req.key, outcome |-> "rejected"]
    /\ UNCHANGED <<cfg, disk, brokers, hist, up, nrestart>>

\* the reply when get_broker returned None (main.rs:114-120, 135-141)
NoBroker(c, req) ==
    /\ conns' = [conns EXCEPT ![c] = Answered(@, Frame(NO_BROKER), TRUE)]
    /\ last' = [op |-> "request", conn |-> c, key |-> req.key,
                outcome |-> "no_broker", broker |-> req.broker]
    /\ UNCHANGED <<cfg, disk, brokers, hist, up, nrestart>>

\* PUSH on the broker get_broker returned (main.rs:109-113); reg and dk are the
\* registry and the directories as get_broker left them
PushOn(c, req, reg, dk) ==
    LET b == req.broker
        s == reg[b]
        r == append_data(s, dk[b], req.payload, cfg)
    IN  /\ brokers' = [reg EXCEPT ![b] = r.st]
        /\ disk' = [dk EXCEPT ![b] = r.dir]
        /\ hist' = [hist EXCEPT ![b] = Append(@,
                       [payload |-> req.payload, offset |-> s.position_offset,
                        res |-> r.res, epoch |-> nrestart])]
        /\ conns' = [conns EXCEPT ![c] =
                        IF r.res = "ok" THEN Answered(@, Frame(OK), TRUE)
                        ELSE Answered(@, << >>, FALSE)]
        /\ last' = [op |-> "request", conn |-> c, key |-> req.key,
                    outcome |-> "push",
                    broker |-> b, res |-> r.res,
                    position |-> s.position_offset]
        /\ UNCHANGED <<cfg, up, nrestart>>

\* (mutant) the data file is positioned at the record before the transfer,
\* as a read through the descriptor's own cursor would need
PullOn_Seeks(c, req, reg, dk) ==
    LET b == req.broker
        r == sendfile(reg[b], dk[b], req.offset, cfg)
    IN  /\ disk' = dk
        /\ up' = (r.res # "sigbus")
        /\ brokers' = IF r.res = "sigbus" THEN NoBrokers
                      ELSE IF r.res = "ok" /\ r.active
                      THEN [reg EXCEPT ![b].data_file.cursor = r.start]
                      ELSE reg
        /\ conns' = IF r.res = "sigbus" THEN CloseAll(conns)
                    ELSE [conns EXCEPT ![c] =
                            Answered(@, PullStream(r), r.res # "panic")]
        /\ last' = [op |-> "request", conn |-> c, key |-> req.key,
                    outcome |-> "pull",
                    broker |-> b, res |-> r.res, sent |-> r.sent]
        /\ UNCHANGED <<cfg, hist, nrestart>>

\* PULL on the broker get_broker returned (main.rs:130-134)
PullOn(c, req, reg, dk) ==
    LET b == req.broker
        r == sendfile(reg[b], dk[b], req.offset, cfg)
    IN  /\ disk' = dk
        /\ up' = (r.res # "sigbus")
        /\ brokers' = IF r.res = "sigbus" THEN NoBrokers ELSE reg
        /\ conns' = IF r.res = "sigbus" THEN CloseAll(conns)
                    ELSE [conns EXCEPT ![c] =
                            Answered(@, PullStream(r), r.res # "panic")]
        /\ last' = [op |-> "request", conn |-> c, key |-> req.key,
                    outcome |-> "pull",
                    broker |-> b, res |-> r.res, sent |-> r.sent]
        /\ UNCHANGED <<cfg, hist, nrestart>>

\* PUSH (main.rs:100-120)
Push(c, req) ==
    LET g == get_broker(brokers, disk, req.broker, cfg)
    IN  IF ~g.found THEN NoBroker(c, req)
        ELSE PushOn(c, req, g.reg, g.dir)

\* PULL (main.rs:121-142)
Pull(c, req) ==
    LET g == get_broker(brokers, disk, req.broker, cfg)
    IN  IF ~g.found THEN NoBroker(c, req)
        ELSE PullOn(c, req, g.reg, g.dir)

\* any other command: nothing is written, the loop reads the next request
OtherCommand(c, req) ==
    /\ conns' = [conns EXCEPT ![c] = Answered(@, << >>, TRUE)]
    /\ last' = [op |-> "request", conn |-> c, key |-> req.key, outcome |-> "ignored"]
    /\ UNCHANGED <<cfg, disk, brokers, hist, up, nrestart>>

\* one iteration of the loop of handle_client (main.rs:63-143)
HandleClient(c, req) ==
    /\ up /\ conns[c].state = "open"
    /\ conns[c].nreq < MaxRequests
    /\ IF ~KeyAccepted(c, req) THEN Reject(c, req)
       ELSE IF req.command = "PUSH" THEN Push(c, req)
       ELSE IF req.command = "PULL" THEN Pull(c, req)
       ELSE OtherCommand(c, req)

\* the peer closes: read_exact fails and the loop ends
PeerClose(c) ==
    /\ up /\ conns[c].state = "open"
    /\ conns' = [conns EXCEPT ![c] = [state |-> "closed", nreq |-> @.nreq, out |-> << >>]]
    /\ last' = [op |-> "close", conn |-> c]
    /\ UNCHANGED <<cfg, disk, brokers, hist, up, nrestart>>

NextConn ==
    \/ \E c \in Connections : Accept(c)
    \/ \E c \in Connections, req \in Requests : HandleClient(c, req)
    \/ \E c \in Connections : PeerClose(c)
    \/ Restart

SpecConn == InitConn /\ [][NextConn]_vars

----------------------------------------------------------------------------
(* get_broker between connection tasks.  The tasks run on the threads of the  *)
(* runtime, and get_broker is not one operation on the registry: the test of  *)
(* contains_key and len() (main.rs:149-152) and the insert (main.rs:154) are  *)
(* separate calls with Broker::new(..).await in between, so other tasks act   *)
(* between the test and the insert.                                           *)

\* the first half of get_broker would go on to create the broker
WouldCreate(req) ==
    /\ req.command \in {"PUSH", "PULL"}
    /\ req.broker \notin DOMAIN brokers
    /\ Cardinality(DOMAIN brokers) + 1 <= cfg.broker_limit

\* the lock of the handle registered under the name is held by a task
RegistryLocked(name) ==
    \E c \in DOMAIN conns :
        conns[c].state = "locked" /\ conns[c].req.broker = name /\ ~conns[c].orphan

\* the request waits for the write lock of a registered broker
WaitsForLock(c, req) ==
    /\ KeyAccepted(c, req)
    /\ req.command \in {"PUSH", "PULL"}
    /\ req.broker \in DOMAIN brokers
    /\ RegistryLocked(req.broker)

\* a request is read; the task either handles it to the end (wrong key, other
\* command, broker registered and its lock free, limit reached) or has passed
\* the test of get_broker and is about to create the broker
BeginRequest(c, req) ==
    /\ up /\ conns[c].state = "open"
    /\ conns[c].nreq < MaxRequests
    /\ ~WaitsForLock(c, req)
    /\ IF KeyAccepted(c, req) /\ WouldCreate(req)
       THEN /\ conns' = [conns EXCEPT ![c] =
                           [state |-> "creating", nreq |-> @.nreq, out |-> << >>,
                            req |-> req]]
            /\ last' = [op |-> "check", conn |-> c]
            /\ UNCHANGED <<cfg, disk, brokers, hist, up, nrestart>>
       ELSE HandleClient(c, req)

\* Broker::new on the broker directory and brokers.insert (main.rs:153-154),
\* which replaces an entry of the same name
CreateAndInsert(reg, dk, name, c) ==
    LET r == initialize_files(IF name \in DOMAIN dk THEN dk[name] ELSE EmptyDir, c)
    IN  [reg |-> [b \in (DOMAIN reg) \cup {name} |-> IF b = name THEN r.st ELSE reg[b]],
         dir |-> [b \in (DOMAIN dk) \cup {name} |-> IF b = name THEN r.dir ELSE dk[b]]]

\* a task holds the handle get_broker returned to it
Holds(cn) == cn.state \in {"holding", "locked"}

\* the second half of get_broker: the task creates the broker, inserts it and
\* holds the new handle.  A task that holds the handle the insert replaced
\* keeps it: that handle is no longer in the registry (orphan) and its store,
\* own, lives as long as the task holds it
CreateBroker(c) ==
    /\ up /\ conns[c].state = "creating"
    /\ LET name == conns[c].req.broker
           g    == CreateAndInsert(brokers, disk, name, cfg)
       IN  /\ brokers' = g.reg
           /\ disk' = g.dir
           /\ conns' = [x \in DOMAIN conns |->
                 IF x = c
                 THEN [state |-> "holding", nreq |-> conns[c].nreq, out |-> << >>,
                       req |-> conns[c].req, orphan |-> FALSE, own |-> NewStruct]
                 ELSE IF Holds(conns[x]) /\ conns[x].req.broker = name
                         /\ ~conns[x].orphan
                 THEN [conns[x] EXCEPT !.orphan = TRUE, !.own = brokers[name]]
                 ELSE conns[x]]
           /\ last' = [op |-> "create", conn |-> c, broker |-> name]
    /\ UNCHANGED <<cfg, hist, up, nrestart>>

\* broker.write().await (main.rs:109, 130-132): the task takes the write lock
\* of the handle it holds
LockBroker(c) ==
    /\ up /\ conns[c].state = "holding"
    /\ conns[c].orphan \/ ~RegistryLocked(conns[c].req.broker)
    /\ conns' = [conns EXCEPT ![c].state = "locked"]
    /\ last' = [op |-> "lock", conn |-> c]
    /\ UNCHANGED <<cfg, disk, brokers, hist, up, nrestart>>

\* PUSH on a handle that is no longer registered: the store appends to the
\* broker directory and is dropped with the handle
PushOrphan(c, req) ==
    LET b == req.broker
        s == conns[c].own
        r == append_data(s, disk[b], req.payload, cfg)
    IN  /\ disk' = [disk EXCEPT ![b] = r.dir]
        /\ hist' = [hist EXCEPT ![b] = Append(@,
                       [payload |-> req.payload, offset |-> s.position_offset,
                        res |-> r.res, epoch |-> nrestart])]
        /\ conns' = [conns EXCEPT ![c] =
                        IF r.res = "ok" THEN Answered(@, Frame(OK), TRUE)
                        ELSE Answered(@, << >>, FALSE)]
        /\ last' = [op |-> "request", conn |-> c, key |-> req.key,
                    outcome |-> "push",
                    broker |-> b, res |-> r.res,
                    position |-> s.position_offset]
        /\ UNCHANGED <<cfg, brokers, up, nrestart>>

\* PULL on a handle that is no longer registered
PullOrphan(c, req) ==
    LET b == req.broker
        r == sendfile(conns[c].own, disk[b], req.offset, cfg)
    IN  /\ up' = (r.res # "sigbus")
        /\ brokers' = IF r.res = "sigbus" THEN NoBrokers ELSE brokers
        /\ conns' = IF r.res = "sigbus" THEN CloseAll(conns)
                    ELSE [conns EXCEPT ![c] =
                            Answered(@, PullStream(r), r.res # "panic")]
        /\ last' = [op |-> "request", conn |-> c, key |-> req.key,
                    outcome |-> "pull",
                    broker |-> b, res |-> r.res, sent |-> r.sent]
        /\ UNCHANGED <<cfg, disk, hist, nrestart>>

\* receive_message / send_messages_since under the lock, the reply, and the
\* guard dropped at the end of the statement
ServeLocked(c) ==
    /\ up /\ conns[c].state = "locked"
    /\ LET req == conns[c].req
       IN  IF conns[c].orphan
           THEN (IF req.command = "PUSH" THEN PushOrphan(c, req)
                 ELSE PullOrphan(c, req))
           ELSE (IF req.command = "PUSH" THEN PushOn(c, req, brokers, disk)
                 ELSE PullOn(c, req, brokers, disk))

NextRace ==
    \/ \E c \in Connections : Accept(c)
    \/ \E c \in Connections, req \in Requests : BeginRequest(c, req)
    \/ \E c \in Connections : CreateBroker(c)
    \/ \E c \in Connections : LockBroker(c)
    \/ \E c \in Connections : ServeLocked(c)
    \/ \E c \in Connections : PeerClose(c)
    \/ Restart

SpecRace == InitConn /\ [][NextRace]_vars

----------------------------------------------------------------------------
(* Observations shared by the properties *)

\* the appends of broker b that returned Ok, in order, as indexes of hist[b]
OkAppends(b) == {i \in 1..Len(hist[b]) : hist[b][i].res = "ok"}

\* the active data file and the active index of a store
ActiveData(b) == disk[b].data[brokers[b].data_file.base]
ActiveIndex(b) == disk[b].index[brokers[b].index_map.base]

\* bytes [start, start + n) of a file, as far as the file reaches
BytesAt(content, start, n) == SubSeq(content, start + 1, Min(start + n, Len(content)))

IsPrefix(a, b) == Len(a) <= Len(b) /\ SubSeq(b, 1, Len(a)) = a

\* the last operation was an append_data that returned Ok
AppendedOk == last.op = "append" /\ last.res = "ok"

\* the record the last append wrote, read back where the descriptor wrote it
LastWritten(b) ==
    LET n == HEADER_LEN + Len(last.data)
    IN  BytesAt(ActiveData(b), brokers[b].data_file.cursor - n, n)

----------------------------------------------------------------------------
(* C1: every successful append_data stores its record with the embedded       *)
(* logical offset equal to position before the call and raises position by    *)
(* exactly 1: the offsets assigned by one store are contiguous, without gap   *)
(* or repeat, and after N successful appends position is the first assigned   *)
(* offset plus N, however many rotations happened in between.                 *)
C1_PositionCountsAppends ==
    LET h   == hist[T1]
        cur == {i \in OkAppends(T1) : h[i].epoch = nrestart}
    IN  /\ \A i, j \in OkAppends(T1) :
              (i < j /\ h[i].epoch = h[j].epoch) =>
                  h[j].offset = h[i].offset
                      + Cardinality({k \in OkAppends(T1) : i <= k /\ k < j})
        /\ (cur # {} /\ T1 \in DOMAIN brokers) =>
              brokers[T1].position_offset =
                  h[CHOOSE i \in cur : \A j \in cur : i <= j].offset + Cardinality(cur)
        /\ (AppendedOk /\ T1 \in DOMAIN brokers) =>
              /\ brokers[T1].position_offset = last.position + 1
              /\ DecodeRecords(LastWritten(T1))
                   = <<[offset |-> last.position, payload |-> last.data]>>

\* three appends and a rotation by one store, the last one just done
C1_Witness ==
    /\ AppendedOk /\ last.rotated
    /\ Cardinality({i \in OkAppends(T1) : hist[T1][i].epoch = nrestart}) >= 3
    /\ brokers[T1].base_offset > 0

----------------------------------------------------------------------------
\* the last operation was a PULL on a store that was never rebuilt from disk
PulledFresh == last.op = "sendfile" /\ nrestart = 0

\* the records a client decodes from the last PULL
Pulled == DecodeRecords(last.sent)

\* record k of broker b as pushed (the store never rebuilt: offsets 0, 1, ...)
Pushed(b, k) == [offset |-> k, payload |-> hist[b][k + 1].payload]

----------------------------------------------------------------------------
(* C3: after a restart that builds the store from the files alone, position   *)
(* equals the number of records appended before the restart, for every        *)
(* number of records in the active segment, below or above the preallocated   *)
(* number of index slots; the next append then carries that offset.           *)
C3_RestartRecoversPosition ==
    (last.op = "new" /\ T1 \in DOMAIN brokers) =>
        brokers[T1].position_offset = Cardinality(OkAppends(T1))

----------------------------------------------------------------------------
(* C4: in every reachable state every written slot k of the active index      *)
(* decodes to (start, size) with start + size <= length of the active data    *)
(* file, and the data file holds at start the 12-byte header of the record    *)
(* with embedded logical offset base + k.                                     *)
C4_SlotsPointAtRecords ==
    T1 \in DOMAIN brokers =>
        LET s == brokers[T1]
        IN  \A k \in 0..(s.position_offset - s.base_offset - 1) :
                /\ k + 1 <= Len(ActiveIndex(T1))
                /\ LET e == ActiveIndex(T1)[k + 1]
                       h == BytesAt(ActiveData(T1), e[1], HEADER_LEN)
                   IN  /\ e[1] + e[2] <= Len(ActiveData(T1))
                       /\ Len(h) = HEADER_LEN
                       /\ from_be64(SubSeq(h, 5, 12)) = s.base_offset + k
                       /\ HEADER_LEN + from_be32(SubSeq(h, 1, 4)) = e[2]

----------------------------------------------------------------------------
(* C5: the data files are append-only: no step changes a byte that is already *)
(* in a data file; an append only adds bytes after the previous end.          *)
C5_DataFilesAppendOnly ==
    [][\A b \in DOMAIN disk : \A f \in DOMAIN disk[b].data :
          IsPrefix(disk[b].data[f], disk'[b].data[f])]_vars

----------------------------------------------------------------------------
(* C6: whenever append_data rotates, the new active base_offset equals the    *)
(* position at the moment of rotation, the record being appended becomes slot *)
(* 0 of the new segment, and the previous active segment keeps exactly the    *)
(* records with offsets in [old base, position).                              *)
C6_RotationSplitsAtPosition ==
    (AppendedOk /\ last.rotated /\ T1 \in DOMAIN brokers) =>
        LET s   == brokers[T1]
            old == DecodeRecords(disk[T1].data[last.base])
        IN  /\ s.base_offset = last.position
            /\ ActiveIndex(T1)[1] = <<0, HEADER_LEN + Len(last.data)>>
            /\ DecodeRecords(BytesAt(ActiveData(T1), 0, HEADER_LEN + Len(last.data)))
                 = <<[offset |-> last.position, payload |-> last.data]>>
            /\ Len(old) = last.position - last.base
            /\ \A i \in 1..Len(old) : old[i].offset = last.base + i - 1
            /\ Len(disk[T1].data[last.base]) = last.data_len

----------------------------------------------------------------------------
(* C7: append_data rotates exactly when data_len + len(payload) + 12 >        *)
(* max_file_size, so after an append of a record whose header plus payload    *)
(* fits in max_file_size the active data file is not longer than              *)
(* max_file_size.                                                             *)
C7_RotationCountsHeader ==
    (AppendedOk /\ T1 \in DOMAIN brokers) =>
        /\ last.rotated <=>
              (last.data_len + Len(last.data) + HEADER_LEN > cfg.max_file_size)
        /\ (HEADER_LEN + Len(last.data) <= cfg.max_file_size) =>
              Len(ActiveData(T1)) <= cfg.max_file_size

----------------------------------------------------------------------------
(* C8: a read that locates a record at byte start of a data file of length L  *)
(* requests exactly the record's size from the index when L - start >         *)
(* pull_max_limit and exactly L - start otherwise, and transfers bytes of     *)
(* that one data file only.                                                   *)
C8_PullLimitPolicy ==
    (last.op = "sendfile" /\ last.res = "ok") =>
        LET L    == Len(disk[T1].data[last.src])
            maps == {brokers[T1].index_map} \cup
                    {brokers[T1].files[i].map : i \in 1..Len(brokers[T1].files)}
        IN  /\ \E m \in maps :
                 /\ m.base = last.src
                 /\ \E k \in 1..Len(disk[T1].index[m.base]) :
                       /\ disk[T1].index[m.base][k][1] = last.start
                       /\ last.size = IF L - last.start > cfg.pull_max_limit
                                      THEN disk[T1].index[m.base][k][2]
                                      ELSE L - last.start
            /\ last.sent = BytesAt(disk[T1].data[last.src], last.start, last.size)

----------------------------------------------------------------------------
(* C9: a read with requested offset 0 on a broker with position > 0 is        *)
(* resolved as offset position - 1, and offset 0 is used unchanged only when  *)
(* position is 0; the read then returns only the bytes of the newest record.  *)
C9_ZeroMeansLatest ==
    (last.op = "sendfile" /\ last.since = 0) =>
        LET s == brokers[T1]
            ok == OkAppends(T1)
        IN  /\ s.position_offset > 0 => last.offset = s.position_offset - 1
            /\ s.position_offset = 0 => last.offset = 0
            /\ s.position_offset > 0 =>
                 LET newest == {i \in ok : hist[T1][i].offset = s.position_offset - 1}
                 IN  /\ last.res = "ok"
                     /\ newest # {}
                     /\ last.sent = RecordBytes(hist[T1][SetMax(newest)].payload,
                                                s.position_offset - 1)

----------------------------------------------------------------------------
(* C10: a request whose key differs from the configured authorization is      *)
(* answered by exactly one frame with body "Server authentication failed.",   *)
(* the connection processes no further request, and the registry and every    *)
(* broker's log stay unchanged; the key is checked on every request of a      *)
(* connection, not only the first.                                            *)
C10_Rejected ==
    last.op = "request" =>
        /\ (last.key # cfg.authorization) <=> (last.outcome = "rejected")
        /\ last.outcome = "rejected" =>
              /\ conns[last.conn].state = "closed"
              /\ conns[last.conn].out = Frame(AUTH_FAILED)

C10_RejectStep ==
    (conns' # conns /\ last'.op = "request" /\ last'.key # cfg.authorization) =>
        /\ brokers' = brokers /\ disk' = disk /\ hist' = hist
        /\ \A c \in Connections : c # last'.conn => conns'[c] = conns[c]

C10_ClosedIsFinal ==
    \A c \in Connections : conns[c].state = "closed" => conns'[c] = conns[c]

C10_AuthReject ==
    /\ []C10_Rejected
    /\ [][C10_RejectStep]_vars
    /\ [][C10_ClosedIsFinal]_vars

\* a wrong key on the second request of a connection, with a broker registered
\* and a record in its log
C10_Witness ==
    /\ last.op = "request" /\ last.outcome = "rejected"
    /\ conns[last.conn].nreq = 2
    /\ \E b \in DOMAIN brokers : brokers[b].position_offset > 0

----------------------------------------------------------------------------
(* C11: the registry never holds more than broker_limit brokers, after the    *)
(* rehydration at startup and after any interleaving of get_broker calls of   *)
(* concurrent connection tasks.                                               *)
C11_RegistryWithinLimit ==
    Cardinality(DOMAIN brokers) <= cfg.broker_limit

----------------------------------------------------------------------------
\* a step in which connection last'.conn, waiting for a request, read one and
\* handled it as far as get_broker's test
RequestStep ==
    /\ last'.op = "request" /\ conns' # conns
    /\ conns[last'.conn].state = "open"

\* the request of the step names a broker the registry does not hold, and the
\* registry holds broker_limit brokers (or more)
OverCapacity ==
    /\ last'.outcome \in {"push", "pull", "no_broker"}
    /\ last'.broker \notin DOMAIN brokers
    /\ Cardinality(DOMAIN brokers) >= cfg.broker_limit

C12_Replied ==
    (last.op = "request" /\ last.outcome = "no_broker") =>
        /\ conns[last.conn].state = "open"
        /\ conns[last.conn].out = Frame(NO_BROKER)

C12_NothingCreated ==
    (RequestStep /\ OverCapacity) =>
        /\ last'.outcome = "no_broker"
        /\ brokers' = brokers /\ disk' = disk /\ hist' = hist
        /\ \A c \in Connections : c # last'.conn => conns'[c] = conns[c]

C12_NextRequestServed ==
    (/\ RequestStep
     /\ conns[last'.conn].out = Frame(NO_BROKER)
     /\ last'.key = cfg.authorization) =>
        /\ last'.outcome # "rejected"
        /\ conns'[last'.conn].nreq = conns[last'.conn].nreq + 1
        /\ (last'.outcome \in {"push", "pull", "no_broker"}
              /\ last'.broker \in DOMAIN brokers) => last'.outcome \in {"push", "pull"}

(* C12: a PUSH or PULL naming a broker that does not exist while the registry *)
(* holds broker_limit brokers is answered by one frame with body NO_BROKER,   *)
(* creates no broker and no directory, appends nothing to any log, and leaves *)
(* the connection open: its next request is handled as any other.             *)
C12_CapacityError ==
    /\ []C12_Replied
    /\ [][C12_NothingCreated]_vars
    /\ [][C12_NextRequestServed]_vars

\* NO_BROKER for the first request of a connection, with the registry full and
\* a record in the log of a registered broker
C12_Witness ==
    /\ last.op = "request" /\ last.outcome = "no_broker"
    /\ Cardinality(DOMAIN brokers) = cfg.broker_limit
    /\ conns[last.conn].state = "open" /\ conns[last.conn].nreq = 1
    /\ \E b \in DOMAIN brokers : hist[b] # << >>

----------------------------------------------------------------------------
(* C13: every PULL that resolves a broker is answered by the record bytes     *)
(* (possibly none) followed by exactly one 4-byte zero sentinel; the sentinel *)
(* is written after the transfer of the record bytes has finished and no      *)
(* record byte follows it.                                                    *)
C13_SentinelEndsPull ==
    last.op = "sendfile" => last.stream = last.sent \o <<0, 0, 0, 0>>

----------------------------------------------------------------------------
(* C14: for every well-framed request with the correct key, whatever its      *)
(* command, the handler writes exactly one response (OK, NO_BROKER, or a PULL *)
(* stream ended by the sentinel) before it reads the next request; a PUSH is  *)
(* answered OK only after its record was appended and position advanced.      *)
C14_OneResponsePerRequest ==
    (last.op = "request" /\ last.key = cfg.authorization) =>
        LET out == conns[last.conn].out
        IN  /\ \/ out = Frame(OK)
               \/ out = Frame(NO_BROKER)
               \/ last.outcome = "pull" /\ out = last.sent \o <<0, 0, 0, 0>>
            /\ out = Frame(OK) =>
                  /\ last.outcome = "push" /\ last.res = "ok"
                  /\ brokers[last.broker].position_offset = last.position + 1
                  /\ hist[last.broker] # << >>
                  /\ hist[last.broker][Len(hist[last.broker])].offset = last.position

----------------------------------------------------------------------------
(* C15: run with max_files >= 2, the sweeper never deletes the .data or the   *)
(* .index file of the active segment of a broker.                             *)
C15_ActiveSegmentKept ==
    (last.op = "sweep" /\ last.max_files >= 2) =>
        \A b \in DOMAIN brokers :
            /\ <<brokers[b].base_offset, "data">> \notin last.deleted[b]
            /\ <<brokers[b].base_offset, "index">> \notin last.deleted[b]

----------------------------------------------------------------------------
\* the bases whose .data and .index files are both in the directory
WholePairs(d) ==
    {b \in DOMAIN d.data : <<b, "data">> \in FileNames(d) /\ <<b, "index">> \in FileNames(d)}

\* the directory holds whole segment pairs only
OnlyPairs(d) == \A f \in FileNames(d) : f[1] \in WholePairs(d)

\* the n largest numbers of S (all of S when it has fewer)
MostRecent(S, n) == {x \in S : Cardinality({y \in S : y > x}) < n}

(* C16: after a sweep with limit N a broker directory that held whole segment *)
(* pairs holds whole pairs only, namely the N most recent ones: for every     *)
(* base both files remain or neither does.                                    *)
C16_KeepsRecentPairs ==
    [][last'.op = "sweep" =>
          \A b \in DOMAIN disk :
              OnlyPairs(disk[b]) =>
                  /\ OnlyPairs(disk'[b])
                  /\ WholePairs(disk'[b])
                       = MostRecent(WholePairs(disk[b]), last'.max_files)]_vars

----------------------------------------------------------------------------
(* C17: the sweep is idempotent: for every directory and every max_files, a   *)
(* second run of the sweep with the same max_files right after the first      *)
(* deletes nothing, so the files left are those the first run left.           *)
C17_SweepIdempotent ==
    /\ (last.op = "sweep" /\ last.run = 2) =>
           \A b \in DOMAIN disk : last.deleted[b] = {}
    /\ \A b \in DOMAIN disk : \A n \in SweepLimits :
           FileNames(clean_directory(clean_directory(disk[b], n), n))
             = FileNames(clean_directory(disk[b], n))

\* the sweep run twice with the same max_files on the directory of a running
\* broker, the first run having deleted files
C17_Witness ==
    /\ last.op = "sweep" /\ last.run = 2 /\ last.max_files >= 2
    /\ T1 \in DOMAIN brokers
    /\ last.first[T1] # {}
    /\ Cardinality(FileNames(disk[T1])) = last.max_files

----------------------------------------------------------------------------
\* the cached sealed entries with base <= offset, as indexes of files
SealedAtOrBelow(s, offset) ==
    {i \in 1..Len(s.files) : s.files[i].base_offset <= offset}

(* C18: for every offset that the active segment does not serve, the read     *)
(* selects the cached sealed entry with the largest base <= offset, also when *)
(* the offset equals the base of an entry, after rotations only and after     *)
(* the store was rebuilt from disk with two or more sealed segments.          *)
C18_SealedLookup ==
    (last.op = "sendfile" /\ ~last.active /\ T1 \in DOMAIN brokers) =>
        LET s == brokers[T1]
            below == SealedAtOrBelow(s, last.offset)
        IN  (below # {} /\ last.offset < s.base_offset) =>
                /\ last.res # "notfound"
                /\ last.res = "ok" =>
                      \A i \in below : s.files[i].base_offset <= last.src

----------------------------------------------------------------------------
\* a cached sealed entry covers the offset: its base is at or below the offset
\* and its index has a written slot for it
CoveredBySealed(s, d, offset) ==
    \E i \in 1..Len(s.files) :
        LET base == s.files[i].base_offset
            k    == offset - base
        IN  /\ base <= offset
            /\ k + 1 <= Len(d.index[base])
            /\ ~IsZeroSlot(d.index[base][k + 1])

(* C19: a read whose resolved offset is covered neither by the active segment *)
(* (base <= offset < position) nor by any cached sealed segment fails with    *)
(* the not-found error and transfers no record byte to the socket.            *)
C19_LookupMiss ==
    (last.op = "sendfile" /\ T1 \in DOMAIN brokers) =>
        LET s == brokers[T1]
        IN  (~InActive(s, last.offset) /\ ~CoveredBySealed(s, disk[T1], last.offset)) =>
                /\ last.res = "notfound"
                /\ last.sent = << >>
                /\ last.stream = <<0, 0, 0, 0>>

----------------------------------------------------------------------------
(* C20: in every reachable state a broker has exactly one active segment,     *)
(* every cached sealed entry has a base strictly below the active             *)
(* base_offset, and the cached sealed entries are in strictly increasing      *)
(* order of base, no base twice; after construction from disk and after every *)
(* append, also one whose payload alone is larger than max_file_size.         *)
C20_SegmentChain ==
    \A b \in DOMAIN brokers :
        LET s == brokers[b]
        IN  /\ s.data_file.base = s.base_offset
            /\ s.index_map.base = s.base_offset
            /\ \A i \in 1..Len(s.files) : s.files[i].base_offset < s.base_offset
            /\ \A i, j \in 1..Len(s.files) :
                  i < j => s.files[i].base_offset < s.files[j].base_offset

----------------------------------------------------------------------------
\* the last operation was an append_data that rotated and pushed the sealed entry
RotatedOk == last.op = "append" /\ last.rotated /\ last.res = "ok"

\* values of storage.cache_limit (a usize of config.toml)
CacheLimits == {0, 1, 2}

(* C21: the number of cached sealed entries never exceeds cache_limit;        *)
(* construction from disk opens at most cache_limit - 1 sealed segments, and  *)
(* a rotation that would exceed cache_limit evicts one entry before it adds   *)
(* the newly sealed one.                                                      *)
C21_CacheWithinLimit ==
    \A b \in DOMAIN brokers :
        /\ Len(brokers[b].files) <= cfg.cache_limit
        /\ last.op = "new" => Len(brokers[b].files) <= cfg.cache_limit - 1
        /\ \A n \in CacheLimits :
              Len(brokers[b].files) <= n =>
                  LET r == Rotate(brokers[b], disk[b], [cfg EXCEPT !.cache_limit = n])
                  IN  r.res = "ok" /\ Len(r.st.files) <= n

\* construction from disk opens at most cache_limit - 1 sealed segments
C21_ConstructionBelowLimit ==
    \A b \in DOMAIN brokers :
        last.op = "new" => Len(brokers[b].files) <= cfg.cache_limit - 1

\* the part of C21 that bounds the cache in every state
C21_CacheBound ==
    \A b \in DOMAIN brokers : Len(brokers[b].files) <= cfg.cache_limit

----------------------------------------------------------------------------
\* the sequence without its entry e
WithoutEntry(f, e) == [i \in 1..(Len(f) - 1) |-> IF i < e THEN f[i] ELSE f[i + 1]]

(* C22: whenever a rotation evicts, the evicted entry is the cached one with  *)
(* the smallest base, so the cache holds the most recently sealed segments,   *)
(* also in rotations after the store was rebuilt from a directory with        *)
(* several sealed segments.                                                   *)
C22_EvictsOldest ==
    [][(RotatedOk' /\ T1 \in DOMAIN brokers
          /\ Len(brokers[T1].files) + 1 > cfg.cache_limit) =>
          LET f == brokers[T1].files
              g == brokers'[T1].files
          IN  \E e \in 1..Len(f) :
                  /\ \A i \in 1..Len(f) : f[e].base_offset <= f[i].base_offset
                  /\ SubSeq(g, 1, Len(g) - 1) = WithoutEntry(f, e)]_vars

----------------------------------------------------------------------------
\* slot k (from 0) of an index file is written: it is inside the file and not
\* all zero
Written(slots, k) == k + 1 <= Len(slots) /\ ~IsZeroSlot(slots[k + 1])

\* the append that last returned Ok with the logical offset, as an index of
\* hist[b]; 0 when there is none
LastAppendAt(b, offset) ==
    LET S == {i \in OkAppends(b) : hist[b][i].offset = offset}
    IN  IF S = {} THEN 0 ELSE CHOOSE i \in S : \A j \in S : j <= i

(* C23: index contiguity: slot 0 of a segment's index has start 0, every      *)
(* written slot k has size 12 plus the payload length of its record, and      *)
(* start[k+1] = start[k] + size[k] whenever slot k+1 is written too; for      *)
(* records appended before and after a restart.                               *)
C23_IndexContiguous ==
    \A b \in DOMAIN disk : \A base \in DOMAIN disk[b].index :
        LET slots == disk[b].index[base]
        IN  /\ Written(slots, 0) => slots[1][1] = 0
            /\ \A k \in 0..(Len(slots) - 1) :
                  Written(slots, k) =>
                      /\ LastAppendAt(b, base + k) # 0 =>
                            slots[k + 1][2] = HEADER_LEN
                                + Len(hist[b][LastAppendAt(b, base + k)].payload)
                      /\ Written(slots, k + 1) =>
                            slots[k + 2][1] = slots[k + 1][1] + slots[k + 1][2]

----------------------------------------------------------------------------
(* C24: the high-water mark: between operations position >= base_offset,      *)
(* exactly the slots 0 .. position - base_offset - 1 of the active index are  *)
(* non-zero, and the slot at position - base_offset is all zero, so that a    *)
(* scan for the first all-zero slot returns position; after construction,     *)
(* after every append and after every rotation.                               *)
C24_HighWaterMark ==
    \A b \in DOMAIN brokers :
        LET s     == brokers[b]
            slots == ActiveIndex(b)
            n     == s.position_offset - s.base_offset
        IN  /\ n >= 0
            /\ \A k \in 0..(Len(slots) - 1) : Written(slots, k) <=> k < n
            /\ n + 1 <= Len(slots) /\ IsZeroSlot(slots[n + 1])
            /\ ScanPosition(slots, 0, s.base_offset, 0) = s.position_offset

----------------------------------------------------------------------------
\* the store and the directory when append_data reaches its index writes: after
\* the rotation block, if the append rotates, and after expand_index_file
BeforeIndexWrite(s, d, data, c) ==
    LET r == IF NeedsRotation(s, data, c) THEN Rotate(s, d, c)
             ELSE [st |-> s, dir |-> d, res |-> "ok"]
        e == ExpandIfNeeded(r.st, r.dir, r.st.position_offset + 2 - r.st.base_offset)
    IN  [st |-> e.st, dir |-> e.dir, res |-> r.res]

\* the index read a sendfile of since_offset makes (storage.rs:366-368, 411-413)
ReadSlotOf(s, d, since_offset) ==
    LET offset == ResolveOffset(s, since_offset)
    IN  IF InActive(s, offset) THEN read_slot(d, s.index_map, offset - s.base_offset)
        ELSE LET j == SelectSealed(s, offset)
             IN  IF j = 0 THEN [res |-> "none", slot |-> <<0, 0>>]
                 ELSE read_slot(d, s.files[j].map, offset - s.files[j].base_offset)

(* C25: index capacity: every time append_data writes slot k = position -     *)
(* base and clears slot k + 1 the current index mapping is at least           *)
(* (k + 2) * 12 bytes long, the index having been extended and remapped       *)
(* beforehand when needed; no index write or read falls outside the mapping,  *)
(* for any number of appends.                                                 *)
C25_IndexCapacity ==
    \A b \in DOMAIN brokers :
        /\ \A data \in Payloads :
              LET w == BeforeIndexWrite(brokers[b], disk[b], data, cfg)
                  k == w.st.position_offset - w.st.base_offset
              IN  w.res = "ok" =>
                      k >= 0 /\ (k + 2) * INDEX_ENTRY_SIZE <= w.st.index_map.len
        /\ \A since \in 0..MaxAppends :
              ReadSlotOf(brokers[b], disk[b], since).res # "panic"

\* the part of C25 about the writes of append_data
C25_WritesInsideMapping ==
    \A b \in DOMAIN brokers : \A data \in Payloads :
        LET w == BeforeIndexWrite(brokers[b], disk[b], data, cfg)
            k == w.st.position_offset - w.st.base_offset
        IN  w.res = "ok" => k >= 0 /\ (k + 2) * INDEX_ENTRY_SIZE <= w.st.index_map.len

----------------------------------------------------------------------------
(* append_data statement by statement.  The call holds &mut self and the      *)
(* broker's lock, so no other operation of the process acts on the store      *)
(* between its statements; the process can be killed between any two.  While  *)
(* a call is in flight last holds its locals (op "appending") and the         *)
(* statement it has reached.                                                  *)

\* data_file.write_all(&header) (storage.rs:316)
WriteHeader(s, d, data, position) ==
    LET f == s.data_file
    IN  [st  |-> [s EXCEPT !.data_file.cursor = f.cursor + HEADER_LEN],
         dir |-> [d EXCEPT !.data[f.base] =
                    WriteAt(d.data[f.base], f.cursor, RecordHeader(data, position))]]

\* data_file.write_all(data), then data_len.fetch_add (storage.rs:317-320)
WritePayload(s, d, data) ==
    LET f == s.data_file
    IN  [st  |-> [s EXCEPT !.data_file.cursor = f.cursor + Len(data),
                           !.data_len = s.data_len + HEADER_LEN + Len(data)],
         dir |-> [d EXCEPT !.data[f.base] = WriteAt(d.data[f.base], f.cursor, data)]]

\* the two copies into slot k (storage.rs:324-328); position - base_offset that
\* underflowed (k < 0) panics at the subtraction or at the slice
WriteSlot(s, d, k, start, end) ==
    LET m == s.index_map
    IN  IF k < 0 \/ (k + 1) * INDEX_ENTRY_SIZE > m.len
        THEN [dir |-> d, res |-> "panic"]
        ELSE [dir |-> [d EXCEPT !.index[m.base][k + 1] = <<start, end>>], res |-> "ok"]

\* the two copies of zero into slot k + 1 (storage.rs:330-333)
ClearNextSlot(s, d, k) ==
    LET m == s.index_map
    IN  IF (k + 2) * INDEX_ENTRY_SIZE > m.len
        THEN [dir |-> d, res |-> "panic"]
        ELSE [dir |-> [d EXCEPT !.index[m.base][k + 2] = <<0, 0>>], res |-> "ok"]

\* position_offset.fetch_add(1) (storage.rs:334)
AdvancePosition(s) == [s EXCEPT !.position_offset = s.position_offset + 1]

\* an append_data call is between two of its statements
Appending == last.op = "appending"

\* the call returns (or its task panics): the history and the observation
EndAppend(b, call, st, dir, res) ==
    /\ brokers' = [brokers EXCEPT ![b] = st]
    /\ disk' = [disk EXCEPT ![b] = dir]
    /\ hist' = [hist EXCEPT ![b] = Append(@,
                   [payload |-> call.data, offset |-> call.position,
                    res |-> res, epoch |-> nrestart])]
    /\ last' = [op |-> "append", broker |-> b, res |-> res,
                rotated |-> call.rotated, data |-> call.data,
                position |-> call.position, base |-> call.base,
                data_len |-> call.data_len, expect |-> call.expect]

\* the call goes on to its next statement
GoOn(b, call, st, dir, stage) ==
    /\ brokers' = [brokers EXCEPT ![b] = st]
    /\ disk' = [disk EXCEPT ![b] = dir]
    /\ hist' = hist
    /\ last' = [call EXCEPT !.stage = stage]

\* the call starts: the rotation block and expand_index_file, up to
\* let start = self.get_data_len() (storage.rs:277-309)
BeginAppend(b, data) ==
    /\ up /\ b \in DOMAIN brokers /\ ~Appending
    /\ Len(hist[b]) < MaxAppends
    /\ LET s    == brokers[b]
           rot  == NeedsRotation(s, data, cfg)
           r    == IF rot THEN Rotate(s, disk[b], cfg)
                   ELSE [st |-> s, dir |-> disk[b], res |-> "ok"]
           k2   == r.st.position_offset + 2 - r.st.base_offset
           e    == ExpandIfNeeded(r.st, r.dir, k2)
           call == [op |-> "appending", stage |-> "begun", broker |-> b,
                    data |-> data, rotated |-> rot,
                    position |-> s.position_offset, base |-> s.base_offset,
                    data_len |-> s.data_len,
                    start |-> DataFileLen(e.dir, e.st.data_file.base),
                    end |-> HEADER_LEN + Len(data),
                    expect |-> append_data(s, disk[b], data, cfg)]
       IN  IF r.res # "ok" THEN EndAppend(b, call, r.st, r.dir, r.res)
           ELSE IF k2 < 0 /\ cfg.overflow_checks
           THEN EndAppend(b, call, r.st, r.dir, "panic")
           ELSE GoOn(b, call, e.st, e.dir, "begun")
    /\ UNCHANGED <<cfg, conns, up, nrestart>>

\* write_all(&header)
StepHeader ==
    /\ up /\ Appending /\ last.stage = "begun"
    /\ LET b == last.broker
           w == WriteHeader(brokers[b], disk[b], last.data, last.position)
       IN  GoOn(b, last, w.st, w.dir, "header")
    /\ UNCHANGED <<cfg, conns, up, nrestart>>

\* write_all(data) and data_len.fetch_add
StepPayload ==
    /\ up /\ Appending /\ last.stage = "header"
    /\ LET b == last.broker
           w == WritePayload(brokers[b], disk[b], last.data)
       IN  GoOn(b, last, w.st, w.dir, "data")
    /\ UNCHANGED <<cfg, conns, up, nrestart>>

\* a write_all returns Err (the device is full): the ? returns it, nothing of
\* that write is in the file
FailWrite ==
    /\ up /\ Appending /\ last.stage \in {"begun", "header"}
    /\ EndAppend(last.broker, last, brokers[last.broker], disk[last.broker], "ioerr")
    /\ UNCHANGED <<cfg, conns, up, nrestart>>

\* slot k := (start, end)
StepSlot ==
    /\ up /\ Appending /\ last.stage = "data"
    /\ LET b == last.broker
           s == brokers[b]
           w == WriteSlot(s, disk[b], s.position_offset - s.base_offset,
                          last.start, last.end)
       IN  IF w.res # "ok" THEN EndAppend(b, last, s, w.dir, w.res)
           ELSE GoOn(b, last, s, w.dir, "slot")
    /\ UNCHANGED <<cfg, conns, up, nrestart>>

\* slot k + 1 := zero
StepClear ==
    /\ up /\ Appending /\ last.stage = "slot"
    /\ LET b == last.broker
           s == brokers[b]
           w == ClearNextSlot(s, disk[b], s.position_offset - s.base_offset)
       IN  IF w.res # "ok" THEN EndAppend(b, last, s, w.dir, w.res)
           ELSE GoOn(b, last, s, w.dir, "cleared")
    /\ UNCHANGED <<cfg, conns, up, nrestart>>

\* position += 1 and Ok(())
StepAdvance ==
    /\ up /\ Appending /\ last.stage = "cleared"
    /\ EndAppend(last.broker, last, AdvancePosition(brokers[last.broker]),
                 disk[last.broker], "ok")
    /\ UNCHANGED <<cfg, conns, up, nrestart>>

\* config.toml and the payload of the runs statement by statement
StepConfigs == {c \in Configs : c.cache_limit = 1}
StepPayloads == { <<7>> }

InitSteps ==
    /\ cfg \in StepConfigs
    /\ disk = [b \in {T1} |-> InitStore(cfg).dir]
    /\ brokers = [b \in {T1} |-> InitStore(cfg).st]
    /\ hist = [b \in {T1} |-> << >>]
    /\ last = NoOp
    /\ conns = NoConns
    /\ up = TRUE
    /\ nrestart = 0

NextSteps ==
    \/ \E data \in StepPayloads : BeginAppend(T1, data)
    \/ StepHeader
    \/ StepPayload
    \/ FailWrite
    \/ StepSlot
    \/ StepClear
    \/ StepAdvance
    \/ Restart

SpecSteps == InitSteps /\ [][NextSteps]_vars

\* a call that ran all its statements leaves what append_data computes
StepsAgree ==
    (last.op = "append" /\ last.res # "ioerr") =>
        /\ brokers[last.broker] = last.expect.st
        /\ disk[last.broker] = last.expect.dir
        /\ last.res = last.expect.res

----------------------------------------------------------------------------
\* slot k of the active index of b is written and points at the whole record
\* with logical offset base + k inside the active data file
SlotPointsAtRecord(b, k) ==
    /\ Written(ActiveIndex(b), k)
    /\ LET e == ActiveIndex(b)[k + 1]
           h == BytesAt(ActiveData(b), e[1], HEADER_LEN)
       IN  /\ e[1] + e[2] <= Len(ActiveData(b))
           /\ Len(h) = HEADER_LEN
           /\ from_be64(SubSeq(h, 5, 12)) = brokers[b].base_offset + k
           /\ HEADER_LEN + from_be32(SubSeq(h, 1, 4)) = e[2]

\* the record of the call in flight is in the data file where its slot says
RecordInFile(b) ==
    BytesAt(ActiveData(b), last.start, last.end) = RecordBytes(last.data, last.position)

(* C26: the write ordering inside one append: the header and the payload are  *)
(* in the data file before the index slot is written, and position is         *)
(* incremented only after the slot is written; so at every intermediate step  *)
(* every offset below position has a fully written slot that points to fully  *)
(* written data, and a failure part-way leaves position unchanged.            *)
C26_WriteOrdering ==
    T1 \in DOMAIN brokers =>
        LET s == brokers[T1]
        IN  /\ Appending =>
                  /\ s.position_offset = last.position
                  /\ last.stage \in {"slot", "cleared"} =>
                        /\ RecordInFile(T1)
                        /\ ActiveIndex(T1)[last.position - s.base_offset + 1]
                             = <<last.start, last.end>>
            /\ \A k \in 0..(s.position_offset - s.base_offset - 1) :
                  SlotPointsAtRecord(T1, k)
            /\ (last.op = "append" /\ last.res # "ok") =>
                  s.position_offset = last.position

\* the part of C26 about the order of the statements of one call
C26_OrderInCall ==
    T1 \in DOMAIN brokers =>
        LET s == brokers[T1]
        IN  /\ Appending => s.position_offset = last.position
            /\ (Appending /\ last.stage \in {"slot", "cleared"}) =>
                  ActiveIndex(T1)[last.position - s.base_offset + 1]
                     = <<last.start, last.end>>
            /\ (last.op = "append" /\ last.res # "ok") =>
                  s.position_offset = last.position

----------------------------------------------------------------------------
\* no two records a broker directory received from the same process carry the
\* same logical offset
C28_DistinctOffsets ==
    \A b \in DOMAIN hist : \A i, j \in OkAppends(b) :
        (i < j /\ hist[b][i].epoch = hist[b][j].epoch) =>
            hist[b][i].offset # hist[b][j].offset

(* C28: one segment store per broker name: when two or more connection tasks  *)
(* make the first reference to the same unregistered broker name              *)
(* concurrently, all of them obtain the same broker handle, so that at no     *)
(* time two segment stores append to the same broker directory and no two     *)
(* records of that broker receive the same logical offset.                    *)
C28_OneStorePerName ==
    /\ \A c \in DOMAIN conns : Holds(conns[c]) => ~conns[c].orphan
    /\ C28_DistinctOffsets

----------------------------------------------------------------------------
\* the store behind the handle a task holds
StoreOf(c) ==
    IF conns[c].orphan THEN conns[c].own ELSE brokers[conns[c].req.broker]

\* two tasks are inside broker.write() for the same broker name at once
Overlap ==
    \E c1, c2 \in DOMAIN conns :
        /\ c1 # c2
        /\ conns[c1].state = "locked" /\ conns[c2].state = "locked"
        /\ conns[c1].req.broker = conns[c2].req.broker

(* C27: per-broker serialization: under any interleaving of connection tasks  *)
(* an append and a read on the same broker never overlap, so every read       *)
(* observes position, data_len and index contents that belong to the same     *)
(* completed prefix of appends.                                               *)
C27_Serialized ==
    /\ ~Overlap
    /\ \A c \in DOMAIN conns :
          (conns[c].state = "locked" /\ nrestart = 0) =>
              LET b == conns[c].req.broker
                  s == StoreOf(c)
              IN  /\ s.position_offset = Cardinality(OkAppends(b))
                  /\ s.data_len = DataFileLen(disk[b], s.data_file.base)
                  /\ ScanPosition(disk[b].index[s.index_map.base], 0,
                                  s.base_offset, 0) = s.position_offset

\* the part of C27 for the tasks that hold the registered handle
C27_SerializedOnOneHandle ==
    \A c1, c2 \in DOMAIN conns :
        (c1 # c2 /\ conns[c1].state = "locked" /\ conns[c2].state = "locked"
            /\ conns[c1].req.broker = conns[c2].req.broker) =>
                conns[c1].orphan \/ conns[c2].orphan

----------------------------------------------------------------------------
(* call_sendfile iteration by iteration (storage.rs:435-454), inside          *)
(* sendfile, inside send_messages_since, under the broker's write lock.       *)
(* While the loop runs last holds its locals _start and _size (op "sending"), *)
(* the bytes the socket took so far, the parity of the calls of the primitive *)
(* made so far (calls), and the condition of the socket: ready, full (the     *)
(* primitive returns EAGAIN) or broken (the peer reset the connection: the    *)
(* primitive returns EPIPE / ECONNRESET on every call).                       *)

\* the most bytes a ready socket takes in one call when it takes less than asked
SockChunk == 8

SockStates == {"ready", "full", "broken"}

\* config.toml of the runs of the transfer loop
SendConfigs ==
    {c \in Configs : c.max_file_size # 0 /\ c.cache_limit = 1 /\ ~c.overflow_checks}

InitSend ==
    /\ cfg \in SendConfigs
    /\ disk = [b \in {T1} |-> InitStore(cfg).dir]
    /\ brokers = [b \in {T1} |-> InitStore(cfg).st]
    /\ hist = [b \in {T1} |-> << >>]
    /\ last = NoOp
    /\ conns = NoConns
    /\ up = TRUE
    /\ nrestart = 0

\* a task is inside call_sendfile, holding the write lock of the broker
Sending == last.op = "sending"

\* a PUSH takes the write lock of the broker when no PULL holds it
PushWhenFree(b, data) == ~Sending /\ AppendData(b, data)

\* a PULL takes the lock; sendfile resolves the offset and, when it found the
\* slot, enters call_sendfile(sock_fd, in_fd, start, size)
BeginPull(b, since_offset, sock) ==
    /\ up /\ b \in DOMAIN brokers /\ ~Sending
    /\ LET r == sendfile(brokers[b], disk[b], since_offset, cfg)
       IN  last' = IF r.res = "ok"
                   THEN [op |-> "sending", broker |-> b, since |-> since_offset,
                         _start |-> r.start, _size |-> r.size, out |-> << >>,
                         sock |-> sock, calls |-> 0] @@ r
                   ELSE [op |-> "sendfile", broker |-> b, since |-> since_offset,
                         stream |-> PullStream(r)] @@ r
    /\ UNCHANGED <<cfg, disk, brokers, hist, conns, up, nrestart>>

\* the bytes the primitive can take from the file: count, or up to the end
Sendable(b) ==
    Min(last._size, Len(disk[b].data[last.src]) - last._start)

\* one iteration of the loop.  The primitive returns Ok(0) when nothing can be
\* read: break, call_sendfile returns, send_messages_since writes the sentinel
\* and the lock is dropped.  Ok(n): _size -= n and again.  EAGAIN: continue.
\* Any other Err: the match arm does nothing and the loop goes round
LoopSendfile ==
    /\ up /\ Sending
    /\ LET b == last.broker
           content == disk[b].data[last.src]
       IN  IF Sendable(b) <= 0
           THEN last' = [op |-> "sendfile", broker |-> b, since |-> last.since,
                         stream |-> last.out \o be32(0), res |-> "ok",
                         src |-> last.src, start |-> last.start, size |-> last.size,
                         sent |-> last.out, offset |-> last.offset,
                         active |-> last.active, expect |-> last.sent]
           ELSE IF last.sock = "ready"
           THEN \E n \in {Min(SockChunk, Sendable(b)), Sendable(b)} :
                    last' = [last EXCEPT
                               !._start = @ + n, !._size = @ - n,
                               !.calls = (@ + 1) % 2,
                               !.out = @ \o SubSeq(content, last._start + 1,
                                                   last._start + n)]
           ELSE last' = [last EXCEPT !.calls = (@ + 1) % 2]
    /\ UNCHANGED <<cfg, disk, brokers, hist, conns, up, nrestart>>

\* the peer reads: the send buffer has room again
SockDrain ==
    /\ Sending /\ last.sock = "full"
    /\ last' = [last EXCEPT !.sock = "ready"]
    /\ UNCHANGED <<cfg, disk, brokers, hist, conns, up, nrestart>>

\* the peer resets the connection while bytes are still to be sent
PeerReset ==
    /\ Sending /\ last.sock # "broken" /\ Sendable(last.broker) > 0
    /\ last' = [last EXCEPT !.sock = "broken"]
    /\ UNCHANGED <<cfg, disk, brokers, hist, conns, up, nrestart>>

NextSend ==
    \/ \E data \in Payloads : PushWhenFree(T1, data)
    \/ \E since \in 0..MaxAppends, sock \in SockStates : BeginPull(T1, since, sock)
    \/ LoopSendfile
    \/ SockDrain
    \/ PeerReset

SpecSend == InitSend /\ [][NextSend]_vars

\* the task in the loop keeps running, and a peer that is connected keeps reading
SpecSendFair == SpecSend /\ WF_vars(LoopSendfile) /\ WF_vars(SockDrain)

\* a transfer the socket took to the end sent what call_sendfile sends at once
TransferAgrees ==
    (last.op = "sendfile" /\ last.res = "ok") => last.sent = last.expect

----------------------------------------------------------------------------
(* C29: the zero-copy transfer loop always terminates: it retries only on     *)
(* EAGAIN, stops when the primitive returns 0, and on any other error stops   *)
(* and propagates the failure; the broker's lock is therefore released after  *)
(* every read and a PUSH waiting on the same broker eventually proceeds.      *)
C29_TransferTerminates == Sending ~> ~Sending

\* the part of C29 for a socket without an error other than EAGAIN
C29_HealthyTransferEnds ==
    (Sending /\ last.sock # "broken") ~> (~Sending \/ last.sock = "broken")

----------------------------------------------------------------------------
(* The sizes of config.toml.  storage.max_file_size and                       *)
(* storage.pull_max_limit are strings (config.rs:15-16), modelled as          *)
(* sequences of characters; DataStorage::new turns them into the byte counts  *)
(* of the store with parse_size (storage.rs:63-64).                           *)

DigitChars == <<"0", "1", "2", "3", "4", "5", "6", "7", "8", "9">>
IsDigit(ch) == \E i \in 1..10 : DigitChars[i] = ch
DigitValue(ch) == (CHOOSE i \in 1..10 : DigitChars[i] = ch) - 1

\* the class [kKmMgG] of the pattern
IsUnitChar(ch) == ch \in {"k", "K", "m", "M", "g", "G"}

\* str::to_lowercase on the characters of a unit
ToLower(ch) == IF ch = "K" THEN "k" ELSE IF ch = "M" THEN "m"
               ELSE IF ch = "G" THEN "g" ELSE ch

\* the end of the run of characters of one class that starts at i
RECURSIVE RunEnd(_, _, _)
RunEnd(str, i, digits) ==
    IF i < Len(str) /\ (IF digits THEN IsDigit(str[i + 1]) ELSE IsUnitChar(str[i + 1]))
    THEN RunEnd(str, i + 1, digits) ELSE i

\* the pattern (\d+)([kKmMgG]+) matches at i: digits from i, then a unit character
MatchesAt(str, i) ==
    /\ IsDigit(str[i])
    /\ RunEnd(str, i, TRUE) < Len(str)
    /\ IsUnitChar(str[RunEnd(str, i, TRUE) + 1])

\* captures[1].parse::<usize>() of a digit string
RECURSIVE ParseNumber(_)
ParseNumber(ds) ==
    IF ds = << >> THEN 0
    ELSE ParseNumber(SubSeq(ds, 1, Len(ds) - 1)) * 10 + DigitValue(ds[Len(ds)])

Multiplier(unit) ==
    IF unit = <<"k">> THEN 1024
    ELSE IF unit = <<"m">> THEN 1024 * 1024
    ELSE IF unit = <<"g">> THEN 1024 * 1024 * 1024
    ELSE 0

\* parse_size (config.rs:27-43): Regex::captures finds the leftmost match
\* anywhere in the string; Err when there is none or the unit is not k, m or g
parse_size(size_str) ==
    LET starts == {i \in 1..Len(size_str) : MatchesAt(size_str, i)}
    IN  IF starts = {} THEN [ok |-> FALSE, value |-> 0, err |-> "Invalid format"]
        ELSE LET i == CHOOSE x \in starts : \A y \in starts : x <= y
                 j == RunEnd(size_str, i, TRUE)
                 e == RunEnd(size_str, j + 1, FALSE)
                 value == ParseNumber(SubSeq(size_str, i, j))
                 unit  == [n \in 1..(e - j) |-> ToLower(size_str[j + n])]
             IN  IF Multiplier(unit) = 0
                 THEN [ok |-> FALSE, value |-> 0, err |-> "Unknown unit"]
                 ELSE [ok |-> TRUE, value |-> value * Multiplier(unit), err |-> ""]

\* parse_size(..).unwrap_or_else(|_| default) (storage.rs:63-64)
SizeOf(size_str, default) ==
    IF parse_size(size_str).ok THEN parse_size(size_str).value ELSE default

\* the defaults of DataStorage::new: 100 MiB and 50 MiB
DEFAULT_MAX_FILE_SIZE == 1024 * 1024 * 100
DEFAULT_PULL_MAX_LIMIT == 1024 * 1024 * 50

\* values of storage.max_file_size and storage.pull_max_limit in config.toml:
\* "1k", "0k", "2K", "30", "1kk", "1x"
SizeStrings ==
    { <<"1", "k">>, <<"0", "k">>, <<"2", "K">>, <<"3", "0">>,
      <<"1", "k", "k">>, <<"1", "x">> }
PullStrings == { <<"1", "k">>, <<"3", "0">> }

\* the configuration as read from config.toml, with the fields max_file_size
\* and pull_max_limit as DataStorage::new sets them in every store it builds
SizedConfigs ==
    { [storage_max_file_size |-> m, storage_pull_max_limit |-> p,
       max_file_size |-> SizeOf(m, DEFAULT_MAX_FILE_SIZE),
       pull_max_limit |-> SizeOf(p, DEFAULT_PULL_MAX_LIMIT),
       cache_limit |-> 1, overflow_checks |-> FALSE,
       authorization |-> "s3cr3t", broker_limit |-> 1]
      : m \in SizeStrings, p \in PullStrings }

\* main has read config.toml; no broker directory exists yet
InitSized ==
    /\ cfg \in SizedConfigs
    /\ disk = << >>
    /\ brokers = NoBrokers
    /\ hist = [b \in {T1} |-> << >>]
    /\ last = NoOp
    /\ conns = NoConns
    /\ up = TRUE
    /\ nrestart = 0

\* Broker::new -> DataStorage::new for a broker that is not registered
NewBroker(b) ==
    /\ up /\ b \notin DOMAIN brokers
    /\ LET g == CreateAndInsert(brokers, disk, b, cfg)
       IN  brokers' = g.reg /\ disk' = g.dir
    /\ last' = [op |-> "new"]
    /\ UNCHANGED <<cfg, hist, conns, up, nrestart>>

NextSized ==
    \/ NewBroker(T1)
    \/ \E data \in Payloads : AppendData(T1, data)
    \/ \E since \in 0..MaxAppends : Sendfile(T1, since)

SpecSized == InitSized /\ [][NextSized]_vars

----------------------------------------------------------------------------
(* C30: a storage.max_file_size or storage.pull_max_limit string that the     *)
(* size parser rejects (no k/m/g suffix, or an unknown unit) is a fatal       *)
(* configuration error: no segment store is ever constructed with a size      *)
(* other than the one the configuration states.                               *)
C30_RejectedSizeIsFatal ==
    \A b \in DOMAIN brokers :
        /\ parse_size(cfg.storage_max_file_size).ok
        /\ parse_size(cfg.storage_pull_max_limit).ok
        /\ cfg.max_file_size = parse_size(cfg.storage_max_file_size).value
        /\ cfg.pull_max_limit = parse_size(cfg.storage_pull_max_limit).value

\* a store built from sizes the parser accepts has the sizes stated
C30_AcceptedSizeIsUsed ==
    \A b \in DOMAIN brokers :
        /\ parse_size(cfg.storage_max_file_size).ok =>
              cfg.max_file_size = parse_size(cfg.storage_max_file_size).value
        /\ parse_size(cfg.storage_pull_max_limit).ok =>
              cfg.pull_max_limit = parse_size(cfg.storage_pull_max_limit).value

----------------------------------------------------------------------------
(* C31: the read path is read-only on the log.  sendfile takes &self, loads   *)
(* the atomics, reads the mappings and hands sendfile(2) an explicit offset,  *)
(* so neither the store nor the files change.                                 *)

\* config.toml with room for both broker names in the registry
TwoBrokerConfigs ==
    {[c EXCEPT !.broker_limit = 2] :
        c \in {k \in Configs : k.max_file_size # 0 /\ k.cache_limit = 1}}

\* requests that carry the configured key
KeyedRequests ==
    {req \in Requests : req.key = "s3cr3t" /\
                        (req.command = "PUSH" => req.payload = <<7>>)}

InitTwo ==
    /\ cfg \in TwoBrokerConfigs
    /\ disk = << >>
    /\ brokers = NoBrokers
    /\ hist = [b \in BrokerNames |-> << >>]
    /\ last = NoOp
    /\ conns = [c \in Connections |-> IdleConn]
    /\ up = TRUE
    /\ nrestart = 0

NextTwo ==
    \/ \E c \in Connections : Accept(c)
    \/ \E c \in Connections, req \in KeyedRequests : HandleClient(c, req)
    \/ \E c \in Connections : PeerClose(c)
    \/ Restart

SpecTwo == InitTwo /\ [][NextTwo]_vars

\* the step is a PULL served on broker b, registered before the request, that
\* sent a run of records ("ok") or found no file for the offset ("notfound")
PullServedOn(b) ==
    /\ b \in DOMAIN brokers
    /\ \/ last'.op = "sendfile"
       \/ last'.op = "request" /\ last'.outcome = "pull"
    /\ last'.broker = b
    /\ last'.res \in {"ok", "notfound"}

\* the fields of the store the write path maintains: position, base_offset,
\* data_len, the active data file and mapping, the cached sealed entries
StoreUnchanged(b) == brokers'[b] = brokers[b]

\* the data files and the index files of the broker directory
FilesUnchanged(b) ==
    /\ disk'[b].data = disk[b].data
    /\ disk'[b].index = disk[b].index

\* C31: a PULL on a registered broker, whether it sends records or ends in a
\* lookup miss, leaves that broker's position, base_offset, data_len, data file
\* bytes, index contents and cached sealed entries as they were, and leaves every
\* other broker, its files included, as it was
C31_PullIsReadOnly ==
    [][\A b \in DOMAIN brokers :
          PullServedOn(b) =>
              /\ StoreUnchanged(b) /\ FilesUnchanged(b)
              /\ brokers' = brokers
              /\ disk' = disk
              /\ hist' = hist]_vars

\* a PULL has sent records of a broker that holds two, while another broker
\* holds a record of its own
C31_Witness ==
    /\ last.op = "request" /\ last.outcome = "pull" /\ last.res = "ok"
    /\ last.sent # << >>
    /\ Len(hist[last.broker]) >= 2
    /\ \E o \in DOMAIN brokers \ {last.broker} : Len(hist[o]) >= 1

\* a PULL on a broker that holds records has ended in a lookup miss
C31_MissWitness ==
    /\ last.op = "request" /\ last.outcome = "pull" /\ last.res = "notfound"
    /\ last.broker \in DOMAIN brokers
    /\ Len(hist[last.broker]) >= 1

====
